---- MODULE Spec2Model ----
(***************************************************************************)
(* A model of the macOS preference accessor (_modules/mac_prefs.py) and    *)
(* of the convergence states built on it (_states/mac_prefs.py).           *)
(*                                                                         *)
(* The state is what the code reads and writes outside its own locals:     *)
(* the native preference store, the process's effective uid, the           *)
(* process-wide test flag, and a record of the last public call.  Every    *)
(* python function is an operator that threads a context                   *)
(* [store, euid, app] through its statements in program order and returns  *)
(* the context at its exit together with its return value or the error it  *)
(* raised.                                                                 *)
(***************************************************************************)
EXTENDS Integers, Sequences, FiniteSets, TLC

VARIABLES store, euid, opts_test, ncalls, last

vars == <<store, euid, opts_test, ncalls, last>>

-----------------------------------------------------------------------------
(* Bounds of the model. *)

\* public calls in one behaviour
MaxCalls == 2
\* native calls that misbehave (raise, or report failure) within one public call
MaxFaults == 1

-----------------------------------------------------------------------------
(* Values.  A python value is [t, n, e]: a type tag, a scalar payload and  *)
(* the elements of a list (scalars [t, n]); e is empty for scalars.        *)

Scalar(t, n) == [t |-> t, n |-> n, e |-> <<>>]
None == Scalar("none", 0)
Num180 == Scalar("num", 1)
BoolTrue == Scalar("bool", 1)
Date1 == Scalar("date", 1)
\* str(NSDate): the string a date converts to; no other input string equals it
DateStrBase == 100
StrOfDate(n) == Scalar("str", DateStrBase + n)
StrDate1 == StrOfDate(1)
ListOfDate == [t |-> "list", n |-> 0, e |-> <<[t |-> "date", n |-> 1]>>]

\* the values a caller passes as the desired value
Values == {None, Num180, Date1}

\* python's == on these values: bool is a subclass of int (True == 1), lists
\* compare element by element, everything else by type and payload
IsNumeric(t) == t \in {"num", "bool"}
ScalarEq(a, b) ==
    /\ a.n = b.n
    /\ \/ a.t = b.t
       \/ IsNumeric(a.t) /\ IsNumeric(b.t)
PyEq(a, b) ==
    IF a.t = "list" \/ b.t = "list"
    THEN /\ a.t = b.t
         /\ Len(a.e) = Len(b.e)
         /\ \A i \in 1..Len(a.e) : ScalarEq(a.e[i], b.e[i])
    ELSE ScalarEq(a, b)

-----------------------------------------------------------------------------
(* Arguments. *)

NoArg == "None"
\* user / host selectors a caller passes; "Current" exercises lower()
Selectors == {NoArg, "any", "Current", "bogus"}
HostSelectors == {NoArg, "any"}
\* runas names; "ghost" is no local account
RunAs == {NoArg, "alice", "ghost"}
Truthy(a) == a # NoArg

Lower(s) == IF s = "Current" THEN "current" ELSE s

RootUid == 0
AliceUid == 501
\* pwd.getpwnam: the local accounts
Passwd == [alice |-> AliceUid]
KnownUser(name) == name \in DOMAIN Passwd

Keys == {"IdleTime"}
TheKey == "IdleTime"

-----------------------------------------------------------------------------
(* The native preference store of one domain: one table per (user, host)   *)
(* location.  kCFPreferencesCurrentUser is the user the process is         *)
(* effectively running as, which is what runas relies on.                  *)

AnyUserSlot == -1
UserSlots == {AnyUserSlot, RootUid, AliceUid}
HostSlots == {"any", "current"}
Slots == UserSlots \X HostSlots

EmptyStore == [s \in Slots |-> [k \in Keys |-> None]]

Slot(user_pref, host_pref, e) ==
    <<IF user_pref = "AnyUser" THEN AnyUserSlot ELSE e,
      IF host_pref = "AnyHost" THEN "any" ELSE "current">>

StoreSet(st, slot, name, value) == [st EXCEPT ![slot][name] = value]

\* the search list of the application-level lookup, most specific first
AppSearchList(e) ==
    << <<e, "current">>, <<e, "any">>,
       <<AnyUserSlot, "current">>, <<AnyUserSlot, "any">> >>

RECURSIVE FirstFound(_, _, _, _)
FirstFound(st, name, slots, i) ==
    IF i > Len(slots) THEN None
    ELSE IF st[slots[i]][name] # None THEN st[slots[i]][name]
    ELSE FirstFound(st, name, slots, i + 1)

\* the application-level write goes to (current user, any host)
AppSetSlot(e) == <<e, "any">>

\* the keys present at one location, in the store's order
RECURSIVE SetToSeq(_)
SetToSeq(S) ==
    IF S = {} THEN <<>>
    ELSE LET k == CHOOSE x \in S : TRUE IN <<k>> \o SetToSeq(S \ {k})

-----------------------------------------------------------------------------
(* Outcomes of a python function: the context at its exit, and either the  *)
(* value it returned or the error it raised.                               *)

Ok(c, v) == [c |-> c, status |-> "ok", val |-> v, err |-> ""]
Raise(c, e) == [c |-> c, status |-> "raise", val |-> None, err |-> e]

\* what a native call does in one public call: "ok", "false" (reports
\* failure, stores nothing) or "raise"
FaultPoints == {"read1", "set", "sync", "read2", "keys"}
Outcomes(p) ==
    IF p \in {"set", "sync"} THEN {"ok", "false", "raise"} ELSE {"ok", "raise"}
NFaults(f) == Cardinality({p \in FaultPoints : f[p] # "ok"})
FaultPlans ==
    {f \in [FaultPoints -> {"ok", "false", "raise"}] :
        /\ \A p \in FaultPoints : f[p] \in Outcomes(p)
        /\ NFaults(f) <= MaxFaults}

\* statement sequencing: an error raised by one statement leaves the
\* function at once, otherwise the rest runs on what the statement returned
Try(r, rest(_)) == IF r.status = "raise" THEN r ELSE rest(r)

\* os.seteuid: an unprivileged process may only go back to its real or
\* saved uid (root here) or stay what it is
os_seteuid(c, uid) ==
    IF c.euid = RootUid \/ uid \in {RootUid, c.euid}
    THEN Ok([c EXCEPT !.euid = uid], None)
    ELSE Raise(c, "PermissionError")

\* the runas block that opens _read_pref, _set_pref and list_
Impersonate(c, runas) ==
    IF ~Truthy(runas) THEN Ok(c, None)
    ELSE IF ~KnownUser(runas) THEN Raise(c, "UserNotFound")
    ELSE os_seteuid(c, Passwd[runas])

\* an unscoped native call runs as whoever the process is at that moment
AsApp(c) == [c EXCEPT !.app = @ \cup {c.euid}]
\* a native call that misbehaved in this public call
Hit(c, what) == [c EXCEPT !.hit = @ \cup {what}]

(* The native calls.  Each takes what it does this time (its fault) and    *)
(* returns, or raises, like any other function.                            *)

CFPreferencesCopyValue(c, name, user_pref, host_pref, fault) ==
    IF fault = "raise" THEN Raise(Hit(c, "copy_raise"), "NativeError")
    ELSE Ok(c, c.store[Slot(user_pref, host_pref, c.euid)][name])

CFPreferencesCopyAppValue(c, name, fault) ==
    IF fault = "raise" THEN Raise(Hit(AsApp(c), "copy_raise"), "NativeError")
    ELSE Ok(AsApp(c), FirstFound(c.store, name, AppSearchList(c.euid), 1))

CFPreferencesSetValue(c, name, value, user_pref, host_pref, fault) ==
    IF fault = "raise" THEN Raise(Hit(c, "set_raise"), "NativeError")
    ELSE IF fault = "false" THEN Ok(Hit(c, "set_false"), FALSE)
    ELSE Ok([c EXCEPT !.store =
                StoreSet(@, Slot(user_pref, host_pref, c.euid), name, value)], TRUE)

\* returns nothing; "false" is a write that silently stores nothing
CFPreferencesSetAppValue(c, name, value, fault) ==
    IF fault = "raise" THEN Raise(Hit(AsApp(c), "set_raise"), "NativeError")
    ELSE IF fault = "false" THEN Ok(Hit(AsApp(c), "set_false"), None)
    ELSE Ok([AsApp(c) EXCEPT !.store = StoreSet(@, AppSetSlot(c.euid), name, value)],
            None)

CFPreferencesAppSynchronize(c, fault) ==
    IF fault = "raise" THEN Raise(Hit(c, "sync_raise"), "NativeError")
    ELSE IF fault = "false" THEN Ok(Hit(c, "sync_false"), FALSE)
    ELSE Ok(c, TRUE)

CFPreferencesCopyKeyList(c, user_pref, host_pref, fault) ==
    IF fault = "raise" THEN Raise(Hit(c, "keys_raise"), "NativeError")
    ELSE Ok(c, SetToSeq({k \in Keys :
                            c.store[Slot(user_pref, host_pref, c.euid)][k] # None}))

_convert_pyobjc_objects(c, pref) ==
    IF pref.t = "date" THEN Ok(c, StrOfDate(pref.n))
    ELSE IF pref.t = "list" /\ \E i \in 1..Len(pref.e) : pref.e[i].t = "date"
         THEN Raise(c, "TypeError")
    ELSE Ok(c, pref)

Prefs(u, h) == [c |-> u, status |-> "ok", val |-> h, err |-> ""]

\* returns (user_pref, host_pref) as Prefs: .c is the user scope, .val the host scope
_get_user_and_host(c, user, host) ==
    IF user = NoArg THEN Raise(c, "AttributeError")
    ELSE IF Lower(user) \notin {"any", "current"} THEN Raise(c, "InvalidUser")
    ELSE IF host = NoArg THEN Raise(c, "AttributeError")
    ELSE IF Lower(host) \notin {"any", "current"} THEN Raise(c, "InvalidHost")
    ELSE Prefs(IF Lower(user) = "any" THEN "AnyUser" ELSE "CurrentUser",
               IF Lower(host) = "any" THEN "AnyHost" ELSE "CurrentHost")

_read_pref(c, name, user, host, runas, fault) ==
    Try(Impersonate(c, runas), LAMBDA imp :
        IF Truthy(user)
        THEN Try(_get_user_and_host(imp.c, user, host), LAMBDA uh :
             Try(CFPreferencesCopyValue(imp.c, name, uh.c, uh.val, fault), LAMBDA value :
                 Ok(os_seteuid(value.c, RootUid).c, value.val)))
        ELSE CFPreferencesCopyAppValue(imp.c, name, fault))

\* except BaseException: return False
ExceptReturnFalse(r) == IF r.status = "raise" THEN Ok(r.c, FALSE) ELSE r

_set_pref(c, name, value, user, host, runas, fset, fsync) ==
    Try(Impersonate(c, runas), LAMBDA imp :
        IF Truthy(user)
        THEN Try(_get_user_and_host(imp.c, user, host), LAMBDA uh :
                 ExceptReturnFalse(
                     Try(CFPreferencesSetValue(imp.c, name, value, uh.c, uh.val, fset),
                         LAMBDA set_val :
                     Try(CFPreferencesAppSynchronize(set_val.c, fsync), LAMBDA sync :
                         Ok(os_seteuid(sync.c, RootUid).c, set_val.val)))))
        ELSE Try(CFPreferencesSetAppValue(imp.c, name, value, fset), LAMBDA done :
                 CFPreferencesAppSynchronize(done.c, fsync)))

\* mutant: the pair check comes before the runas check
_check_args_pair_first(c, user, host, runas) ==
    IF (Truthy(user) \/ Truthy(host)) /\ ~(Truthy(user) /\ Truthy(host))
    THEN Raise(c, "NeedBothUserAndHost")
    ELSE IF Truthy(runas) /\ ~(Truthy(user) /\ Truthy(host))
    THEN Raise(c, "RunasNeedsUserAndHost")
    ELSE Ok(c, TRUE)

_check_args(c, user, host, runas) ==
    IF Truthy(runas) /\ ~(Truthy(user) /\ Truthy(host))
    THEN Raise(c, "RunasNeedsUserAndHost")
    ELSE IF (Truthy(user) \/ Truthy(host)) /\ ~(Truthy(user) /\ Truthy(host))
    THEN Raise(c, "NeedBothUserAndHost")
    ELSE Ok(c, TRUE)

read(c, name, user, host, runas, fault) ==
    Try(_check_args(c, user, host, runas), LAMBDA chk :
    Try(_read_pref(c, name, user, host, runas, fault), LAMBDA r :
        _convert_pyobjc_objects(r.c, r.val)))

\* c.writes counts the invocations of prefs.set within one public call and
\* c.set_ret keeps what the last of them returned
Returns(c, b) == Ok([c EXCEPT !.set_ret = IF b THEN "True" ELSE "False"], b)

set_(c, name, value, user, host, runas, f) ==
    Try(_check_args([c EXCEPT !.writes = @ + 1], user, host, runas), LAMBDA chk :
    Try(_set_pref(chk.c, name, value, user, host, runas, f["set"], f["sync"]),
        LAMBDA set_val :
    Try(read(set_val.c, name, user, host, runas, f["read2"]), LAMBDA new_val :
        Returns(new_val.c, PyEq(new_val.val, value)))))

\* the loop of list_ with values=True: value_dict[item] = read(item, ...)
RECURSIVE ReadItems(_, _, _, _, _, _, _, _)
ReadItems(c, keys, i, acc, user, host, runas, fault) ==
    IF i > Len(keys) THEN Ok(c, acc)
    ELSE Try(read(c, keys[i], user, host, runas, fault), LAMBDA r :
             ReadItems(r.c, keys, i + 1, Append(acc, <<keys[i], r.val>>),
                       user, host, runas, fault))

Listing(kind, keys, items) == [kind |-> kind, keys |-> keys, items |-> items]

\* except TypeError: return None; any other error goes on to the caller
ExceptTypeError(items) ==
    IF items.status = "raise" /\ items.err = "TypeError"
    THEN Ok(items.c, Listing("none", <<>>, <<>>))
    ELSE IF items.status = "raise" THEN items
    ELSE Ok(items.c, Listing("dict", <<>>, items.val))

list_(c, user, host, runas, values, f) ==
    Try(_check_args(c, user, host, runas), LAMBDA chk :
    Try(_get_user_and_host(c, user, host), LAMBDA uh :
    Try(Impersonate(c, runas), LAMBDA imp :
    Try(CFPreferencesCopyKeyList(imp.c, uh.c, uh.val, f["keys"]), LAMBDA key_list :
        IF ~values
        THEN Ok(os_seteuid(key_list.c, RootUid).c, Listing("keys", key_list.val, <<>>))
        ELSE ExceptTypeError(
                ReadItems(os_seteuid(key_list.c, RootUid).c, key_list.val,
                          1, <<>>, user, host, runas, f["read1"]))))))

-----------------------------------------------------------------------------
(* The states module.  A returned record is [result, comment, changes].    *)

Ret(result, comment, changes) ==
    [result |-> result, comment |-> comment, changes |-> changes]
Change(name, old, new) == <<[key |-> name, old |-> old, new |-> new]>>
BoolStr(b) == IF b THEN "True" ELSE "False"

\* mutant: the test flag is not looked at
exists_ignoring_test(c, name, value, user, host, runas, test, f) ==
    Try(read(c, name, user, host, runas, f["read1"]), LAMBDA old_value :
        IF PyEq(old_value.val, value)
        THEN Ok(old_value.c, Ret("True", "already_set", <<>>))
        ELSE Try(set_(old_value.c, name, value, user, host, runas, f), LAMBDA set_val :
                 IF ~set_val.val
                 THEN Ok(set_val.c, Ret("False", "failed_to_set",
                                        Change(name, old_value.val, value)))
                 ELSE Ok(set_val.c, Ret("True", "is_set",
                                        Change(name, old_value.val, value)))))

exists(c, name, value, user, host, runas, test, f) ==
    Try(read(c, name, user, host, runas, f["read1"]), LAMBDA old_value :
        IF PyEq(old_value.val, value)
        THEN Ok(old_value.c, Ret("True", "already_set", <<>>))
        ELSE IF test
        THEN Ok(old_value.c,
                Ret("None", "would_be_set", Change(name, old_value.val, value)))
        ELSE Try(set_(old_value.c, name, value, user, host, runas, f), LAMBDA set_val :
                 IF ~set_val.val
                 THEN Ok(set_val.c, Ret("False", "failed_to_set",
                                        Change(name, old_value.val, value)))
                 ELSE Ok(set_val.c, Ret("True", "is_set",
                                        Change(name, old_value.val, value)))))

write(c, name, value, user, host, runas, test, f) ==
    exists(c, name, value, user, host, runas, test, f)

\* mutant: a failed removal is tried once more
absent_retrying(c, name, user, host, runas, test, f) ==
    Try(read(c, name, user, host, runas, f["read1"]), LAMBDA old_value :
        IF old_value.val = None
        THEN Ok(old_value.c, Ret("True", "already_removed", <<>>))
        ELSE IF test
        THEN Ok(old_value.c,
                Ret("None", "would_be_removed", Change(name, old_value.val, None)))
        ELSE Try(set_(old_value.c, name, None, user, host, runas, f), LAMBDA set_val :
                 IF set_val.val
                 THEN Ok(set_val.c, Ret("True", "removed",
                                        Change(name, old_value.val, None)))
                 ELSE Try(set_(set_val.c, name, None, user, host, runas, f),
                          LAMBDA again :
                          IF ~again.val
                          THEN Ok(again.c, Ret("False", "failed_to_remove",
                                               Change(name, old_value.val, None)))
                          ELSE Ok(again.c, Ret("True", "removed",
                                               Change(name, old_value.val, None))))))

absent(c, name, user, host, runas, test, f) ==
    Try(read(c, name, user, host, runas, f["read1"]), LAMBDA old_value :
        IF old_value.val = None
        THEN Ok(old_value.c, Ret("True", "already_removed", <<>>))
        ELSE IF test
        THEN Ok(old_value.c,
                Ret("None", "would_be_removed", Change(name, old_value.val, None)))
        ELSE Try(set_(old_value.c, name, None, user, host, runas, f), LAMBDA set_val :
                 IF ~set_val.val
                 THEN Ok(set_val.c, Ret("False", "failed_to_remove",
                                        Change(name, old_value.val, None)))
                 ELSE Ok(set_val.c, Ret("True", "removed",
                                        Change(name, old_value.val, None)))))

delete(c, name, user, host, runas, test, f) ==
    absent(c, name, user, host, runas, test, f)

-----------------------------------------------------------------------------
(* The state machine: one action per public function.                      *)

NoListing == Listing("", <<>>, <<>>)
NoRet == Ret("", "", <<>>)

\* the record of one public call: its arguments and what came back
Call(op, value, user, host, runas, r, val, ret, listing) ==
    [op |-> op, value |-> value, user |-> user, host |-> host, runas |-> runas,
     test |-> opts_test, euid0 |-> euid, hit |-> r.c.hit, set_ret |-> r.c.set_ret,
     status |-> r.status, err |-> r.err,
     val |-> val, ret |-> ret, listing |-> listing,
     writes |-> r.c.writes, app |-> r.c.app]

\* the context a public call starts in
Enter ==
    [store |-> store, euid |-> euid, app |-> {}, hit |-> {}, writes |-> 0, set_ret |-> ""]

Leave(r) ==
    /\ store' = r.c.store
    /\ euid' = r.c.euid
    /\ ncalls' = ncalls + 1
    /\ UNCHANGED opts_test

PlansOn(points) == {f \in FaultPlans : \A p \in FaultPoints \ points : f[p] = "ok"}

\* what the store may hold when the process starts: nothing, or entries
\* written earlier by anyone
PopulatedStore ==
    [s \in Slots |-> [k \in Keys |->
        IF s = <<AliceUid, "any">> THEN Num180
        ELSE IF s = <<RootUid, "current">> THEN BoolTrue
        ELSE IF s = <<RootUid, "any">> THEN Date1
        ELSE IF s = <<AnyUserSlot, "any">> THEN ListOfDate
        ELSE None]]
InitStores == {EmptyStore, PopulatedStore}

Init ==
    /\ store \in InitStores
    /\ euid = RootUid
    /\ opts_test \in BOOLEAN
    /\ ncalls = 0
    /\ last = [op |-> "init", value |-> None, user |-> NoArg, host |-> NoArg,
               runas |-> NoArg, test |-> opts_test, euid0 |-> RootUid, hit |-> {},
               set_ret |-> "",
               status |-> "ok", err |-> "", val |-> None, ret |-> NoRet,
               listing |-> NoListing, writes |-> 0, app |-> {}]

Read ==
    /\ ncalls < MaxCalls
    /\ \E user \in Selectors, host \in HostSelectors, runas \in RunAs,
          f \in PlansOn({"read1"}) :
        LET r == read(Enter, TheKey, user, host, runas, f["read1"])
        IN  /\ Leave(r)
            /\ last' = Call("read", None, user, host, runas, r, r.val, NoRet, NoListing)

Set ==
    /\ ncalls < MaxCalls
    /\ \E value \in Values, user \in Selectors, host \in HostSelectors, runas \in RunAs,
          f \in PlansOn({"set", "sync", "read2"}) :
        LET r == set_(Enter, TheKey, value, user, host, runas, f)
        IN  /\ Leave(r)
            /\ last' = Call("set", value, user, host, runas, r, None,
                            IF r.status = "ok" THEN Ret(BoolStr(r.val), "", <<>>)
                            ELSE NoRet,
                            NoListing)

List ==
    /\ ncalls < MaxCalls
    /\ \E user \in Selectors, host \in HostSelectors, runas \in RunAs,
          values \in BOOLEAN, f \in PlansOn({"keys", "read1"}) :
        LET r == list_(Enter, user, host, runas, values, f)
        IN  /\ Leave(r)
            /\ last' = Call("list", None, user, host, runas, r, None, NoRet,
                            IF r.status = "ok" THEN r.val ELSE NoListing)

Exists ==
    /\ ncalls < MaxCalls
    /\ \E value \in Values, user \in Selectors, host \in HostSelectors, runas \in RunAs,
          f \in PlansOn({"read1", "set", "sync", "read2"}) :
        LET r == write(Enter, TheKey, value, user, host, runas, opts_test, f)
        IN  /\ Leave(r)
            /\ last' = Call("exists", value, user, host, runas, r, None,
                            IF r.status = "ok" THEN r.val ELSE NoRet, NoListing)

Absent ==
    /\ ncalls < MaxCalls
    /\ \E user \in Selectors, host \in HostSelectors, runas \in RunAs,
          f \in PlansOn({"read1", "set", "sync", "read2"}) :
        LET r == delete(Enter, TheKey, user, host, runas, opts_test, f)
        IN  /\ Leave(r)
            /\ last' = Call("absent", None, user, host, runas, r, None,
                            IF r.status = "ok" THEN r.val ELSE NoRet, NoListing)

Next == Read \/ Set \/ List \/ Exists \/ Absent

Spec == Init /\ [][Next]_vars

-----------------------------------------------------------------------------
(* Properties.                                                             *)

Accessor == {"read", "set", "list"}
Returned == last.status = "ok"
SameArgs(a, b) ==
    /\ a.user = b.user /\ a.host = b.host /\ a.runas = b.runas /\ a.value = b.value

\* what prefs.read with the arguments of the last call returns right now
ReadNow == read(Enter, TheKey, last.user, last.host, last.runas, "ok")

\* C1: after an accessor call made with runas, whatever way it ended, the
\* effective uid is the original one again.
C1_IdentityRestored ==
    (last.op \in Accessor /\ Truthy(last.runas)) => euid = RootUid

\* C2: when the native set, the synchronize or the read-back raises inside
\* prefs.set, prefs.set returns False to its caller instead of raising.
NativeRaises == {"set_raise", "sync_raise", "copy_raise"}
C2_SetNeverRaisesNative ==
    (last.op = "set" /\ last.hit \cap NativeRaises # {})
        => (Returned /\ last.ret.result = "False")

\* C3: when the synchronize that follows the native set reports failure,
\* prefs.set returns False, whatever the read-back returns.
C3_SyncFailureIsFalse ==
    (last.op = "set" /\ Returned /\ "sync_false" \in last.hit)
        => last.ret.result = "False"

\* C4: outside test mode, a second exists call with the arguments of the
\* one just completed, with the native layer working in both, finds the
\* value already set: result True, no changes, no write.
C4_ExistsIdempotent ==
    [][(/\ last.op = "exists" /\ Returned /\ last.hit = {}
        /\ ~opts_test
        /\ last'.op = "exists" /\ ncalls' = ncalls + 1
        /\ SameArgs(last, last') /\ last'.hit = {})
       => (/\ last'.status = "ok"
           /\ last'.ret = Ret("True", "already_set", <<>>)
           /\ last'.writes = 0)]_vars

\* C5: when prefs.set has returned True, the prefs.read that follows it
\* with the same arguments returns a value equal to the one set.
C5_SetThenRead ==
    (last.op = "set" /\ Returned /\ last.ret.result = "True" /\ ReadNow.status = "ok")
        => PyEq(ReadNow.val, last.value)

\* what prefs.read with the arguments of call l returns in the state the
\* call starts in
ReadBefore(l) == read(Enter, TheKey, l.user, l.host, l.runas, "ok")

Convergence == {"exists", "absent"}
WouldComment(op) == IF op = "exists" THEN "would_be_set" ELSE "would_be_removed"
DoneComment(op, set_ret) ==
    IF op = "exists"
    THEN IF set_ret = "True" THEN "is_set" ELSE "failed_to_set"
    ELSE IF set_ret = "True" THEN "removed" ELSE "failed_to_remove"

\* C6: in test mode exists and absent never call prefs.set and leave the
\* store as it was; when the current value differs from the target the
\* record returned has result None, the would-be comment and
\* changes = {key: {old: current, new: target}}.
C6_DryRunNoEffect ==
    [][(opts_test /\ ncalls' = ncalls + 1 /\ last'.op \in Convergence)
       => (/\ store' = store
           /\ last'.writes = 0
           /\ (last'.status = "ok" /\ ~PyEq(ReadBefore(last').val, last'.value))
                => last'.ret = Ret("None", WouldComment(last'.op),
                                   Change(TheKey, ReadBefore(last').val, last'.value)))]_vars

C6_Witness ==
    /\ last.op = "exists" /\ last.test /\ Returned
    /\ last.ret.result = "None" /\ last.ret.comment = "would_be_set"
    /\ last.ret.changes = Change(TheKey, StrDate1, Num180)

ExactlyOne(l) == Truthy(l.user) # Truthy(l.host)
ValidationErrors == {"RunasNeedsUserAndHost", "NeedBothUserAndHost"}

\* C7 as stated: with exactly one of user and host given the call fails
\* with the "you must specify both" error whether or not runas is given,
\* and validation passes when both are given or nothing is.
C7_PairErrorWhateverRunas ==
    last.op # "init" =>
        /\ ExactlyOne(last) => last.err = "NeedBothUserAndHost"
        /\ ((Truthy(last.user) /\ Truthy(last.host))
            \/ (~Truthy(last.user) /\ ~Truthy(last.host) /\ ~Truthy(last.runas)))
                => last.err \notin ValidationErrors

\* C7 amended: with exactly one of user and host given the call fails with
\* the "you must specify both" error when runas is absent and with the
\* runas error when runas is given; validation passes when both are given
\* or nothing is.
C7_PairErrorWithoutRunas ==
    last.op # "init" =>
        /\ (ExactlyOne(last) /\ ~Truthy(last.runas)) => last.err = "NeedBothUserAndHost"
        /\ (ExactlyOne(last) /\ Truthy(last.runas)) => last.err = "RunasNeedsUserAndHost"
        /\ ((Truthy(last.user) /\ Truthy(last.host))
            \/ (~Truthy(last.user) /\ ~Truthy(last.host) /\ ~Truthy(last.runas)))
                => last.err \notin ValidationErrors

C7_Witness ==
    /\ last.op = "read" /\ last.status = "raise"
    /\ Truthy(last.user) /\ ~Truthy(last.host) /\ ~Truthy(last.runas)
    /\ last.err = "NeedBothUserAndHost"

\* C8: the unscoped native calls only ever run as the original identity.
C8_AppValueAsRoot == last.app \subseteq {RootUid}

\* C9: outside test mode, when the current value differs from the target,
\* exists and absent call prefs.set exactly once, the result of the record
\* returned is what that call returned, the comment says so, and changes
\* holds {key: {old: current, new: target}}.
C9_OneWriteResultIsItsReturn ==
    [][(/\ ~opts_test /\ ncalls' = ncalls + 1 /\ last'.op \in Convergence
        /\ last'.status = "ok" /\ ~PyEq(ReadBefore(last').val, last'.value))
       => (/\ last'.writes = 1
           /\ last'.set_ret \in {"True", "False"}
           /\ last'.ret = Ret(last'.set_ret, DoneComment(last'.op, last'.set_ret),
                              Change(TheKey, ReadBefore(last').val, last'.value)))]_vars

C9_Witness ==
    /\ last.op = "absent" /\ ~last.test /\ Returned
    /\ last.writes = 1 /\ last.set_ret = "False"
    /\ last.ret = Ret("False", "failed_to_remove", Change(TheKey, Num180, None))

\* C10: when exists or absent returns a record with result True, a read
\* with the same arguments at that moment gives the target value.
C10_TrueMeansConverged ==
    (last.op \in Convergence /\ Returned /\ last.ret.result = "True"
     /\ ReadNow.status = "ok")
        => PyEq(ReadNow.val, last.value)

(* What the failures of C5, C8 and C10 rest on: the three hold of every    *)
(* call that starts as the original identity.                              *)
FromRoot_SetThenRead == last.euid0 = RootUid => C5_SetThenRead
FromRoot_AppValueAsRoot == last.euid0 = RootUid => C8_AppValueAsRoot
FromRoot_TrueMeansConverged == last.euid0 = RootUid => C10_TrueMeansConverged

(* Reachability of the less common exits. *)
ListingGivenUp == last.op = "list" /\ Returned /\ last.listing.kind = "none"
ListingOfValues == last.op = "list" /\ Returned /\ Len(last.listing.items) > 0
UnknownUser == last.err = "UserNotFound"
TrueEqualsOne ==
    /\ last.op = "exists" /\ last.value = Num180 /\ last.ret.comment = "already_set"
    /\ ~Truthy(last.user) /\ last.euid0 = RootUid

====
